---- MODULE Spec2Model ----
(***************************************************************************)
(* The Arithmetic Machine of src/main.c: a stack-based virtual machine     *)
(* that decodes a byte sequence and executes it against an operand stack   *)
(* of doubles and two registers.                                           *)
(*                                                                         *)
(* A double is modelled by its memory image: the tuple                     *)
(*     <<"b", b0, b1, b2, b3, b4, b5, b6, b7>>                             *)
(* of its 8 bytes in address order.  The build is taken to be a            *)
(* little-endian IEEE-754 one (x86-64, AArch64), so b7 holds the sign and  *)
(* the high exponent bits.  Arithmetic is computed exactly on the doubles  *)
(* whose significand has at most 13 bits and whose exponent lies within    *)
(* ExpRange of 0; a result outside that set is kept as the term            *)
(* <<"add"|"sub"|"mul"|"div", a, b>> or <<"neg", a>> that denotes the      *)
(* IEEE result without evaluating it.                                      *)
(***************************************************************************)
EXTENDS Integers, Sequences, FiniteSets, TLC

(***************************************************************************)
(* Bounds of the model.                                                    *)
(***************************************************************************)
\* longest body of arbitrary bytes appended to a prefix
MaxLen == 2
\* longest body appended to a prefix that fills the stack
MaxFillTail == 1
\* longest body appended to a DCONST with a (possibly truncated) operand
MaxDTail == 1
\* how many bytes past the end of code the model follows a run
MaxOverrun == 2
\* exponents (base 2) of the doubles on which arithmetic is evaluated
ExpRange == 8

(***************************************************************************)
(* Program constants.                                                      *)
(***************************************************************************)
STACK_SIZE == 256

HALT      == 0
DCONST_M1 == 10
DCONST_0  == 11
DCONST_1  == 12
DCONST_2  == 13
DCONST    == 15
ADD       == 96
SUB       == 97
MUL       == 98
DIV       == 100
NEG       == 112
NOP       == 240
PRINT     == 242
ST1       == 244
LD1       == 245
ST2       == 246
LD2       == 247

Opcodes ==
    {HALT, DCONST_M1, DCONST_0, DCONST_1, DCONST_2, DCONST, ADD, SUB, MUL,
     DIV, NEG, NOP, PRINT, ST1, LD1, ST2, LD2}

(***************************************************************************)
(* Bytes.  code is a char*, and char is signed on the modelled build: a    *)
(* byte of the program is stored as a value of -128..127 and converted to  *)
(* unsigned char when it is fetched or copied.                             *)
(***************************************************************************)
ToCharSaturating(n) == IF n >= 128 THEN 127 ELSE n

ToChar(n) == IF n >= 128 THEN n - 256 ELSE n

ToUCharSigned(c) == c

ToUChar(c) == c % 256

(***************************************************************************)
(* Doubles.                                                                *)
(***************************************************************************)
RECURSIVE Pow2(_)
Pow2(k) == IF k = 0 THEN 1 ELSE 2 * Pow2(k - 1)

RECURSIVE BitLen(_)
BitLen(m) == IF m = 0 THEN 0 ELSE 1 + BitLen(m \div 2)

\* <<m, e>> with the same value m * 2^e and m odd (m > 0)
RECURSIVE Strip(_, _)
Strip(m, e) == IF m % 2 = 0 THEN Strip(m \div 2, e + 1) ELSE <<m, e>>

Max(x, y) == IF x >= y THEN x ELSE y

Min(x, y) == IF x <= y THEN x ELSE y

\* the double whose memory image is the 8 bytes bs (unsigned), lowest address first
MkDoubleSwapped(bs) == <<"b">> \o [i \in 1..8 |-> bs[9 - i]]

MkDouble(bs) == <<"b">> \o bs

IsBits(v) == v[1] = "b"

SignBit(v) == v[9] \div 128

ExpField(v) == (v[9] % 128) * 16 + (v[8] \div 16)

MantZero(v) == v[8] % 16 = 0 /\ \A i \in 2..7 : v[i] = 0

\* "zero", "small" (evaluated exactly), "sub" (denormal), "raw" (any other
\* finite double), "inf", "nan", or "expr" (an unevaluated result)
Class(v) ==
    IF ~IsBits(v) THEN "expr"
    ELSE IF ExpField(v) = 2047 THEN (IF MantZero(v) THEN "inf" ELSE "nan")
    ELSE IF ExpField(v) = 0 THEN (IF MantZero(v) THEN "zero" ELSE "sub")
    ELSE IF (\A i \in 2..6 : v[i] = 0)
            /\ ExpField(v) - 1023 >= -ExpRange
            /\ ExpField(v) - 1023 <= ExpRange
         THEN "small"
    ELSE "raw"

Exact(v) == Class(v) \in {"zero", "small"}

\* the magnitude of an exact double as <<m, e>>: m * 2^e, m odd or 0
Mag(v) ==
    IF Class(v) = "zero" THEN <<0, 0>>
    ELSE Strip(4096 + (v[8] % 16) * 256 + v[7], ExpField(v) - 1023 - 12)

Zero(s) == <<"b", 0, 0, 0, 0, 0, 0, 0, s * 128>>

Representable(m, e) ==
    /\ BitLen(m) <= 13
    /\ e + BitLen(m) - 1 >= -ExpRange
    /\ e + BitLen(m) - 1 <= ExpRange

\* the image of (-1)^s * m * 2^e, for m odd and Representable(m, e)
Encode(s, m, e) ==
    LET M == m * Pow2(13 - BitLen(m))
        E == e + BitLen(m) - 1 + 1023
    IN  <<"b", 0, 0, 0, 0, 0, (M - 4096) % 256,
          (E % 16) * 16 + ((M - 4096) \div 256), s * 128 + (E \div 16)>>

\* the literals of the PUSH calls
MinusOne == <<"b", 0, 0, 0, 0, 0, 0, 240, 191>>
One      == <<"b", 0, 0, 0, 0, 0, 0, 240, 63>>
Two      == <<"b", 0, 0, 0, 0, 0, 0, 0, 64>>

\* -b: flips the sign bit
FNeg(v) ==
    IF IsBits(v)
    THEN [v EXCEPT ![9] = IF v[9] >= 128 THEN v[9] - 128 ELSE v[9] + 128]
    ELSE <<"neg", v>>

\* a + b of two exact doubles, or <<>> when the sum is not evaluated
AddExact(a, b) ==
    LET ma == Mag(a)[1]
        ea == Mag(a)[2]
        mb == Mag(b)[1]
        eb == Mag(b)[2]
        lo == Min(ea, eb)
        hi == Max(ea + BitLen(ma), eb + BitLen(mb))
        sa == IF SignBit(a) = 1 THEN 0 - ma * Pow2(ea - lo) ELSE ma * Pow2(ea - lo)
        sb == IF SignBit(b) = 1 THEN 0 - mb * Pow2(eb - lo) ELSE mb * Pow2(eb - lo)
        s  == sa + sb
        r  == Strip(IF s < 0 THEN 0 - s ELSE s, lo)
    IN  IF ma = 0 /\ mb = 0
        THEN Zero(IF SignBit(a) = 1 /\ SignBit(b) = 1 THEN 1 ELSE 0)
        ELSE IF ma = 0 THEN b
        ELSE IF mb = 0 THEN a
        ELSE IF hi - lo > 26 THEN <<>>
        ELSE IF s = 0 THEN Zero(0)
        ELSE IF Representable(r[1], r[2])
             THEN Encode(IF s < 0 THEN 1 ELSE 0, r[1], r[2])
        ELSE <<>>

FAdd(a, b) ==
    IF Exact(a) /\ Exact(b) /\ AddExact(a, b) # <<>>
    THEN AddExact(a, b)
    ELSE <<"add", a, b>>

FSub(a, b) ==
    IF Exact(a) /\ Exact(b) /\ AddExact(a, FNeg(b)) # <<>>
    THEN AddExact(a, FNeg(b))
    ELSE <<"sub", a, b>>

FMul(a, b) ==
    LET s == (SignBit(a) + SignBit(b)) % 2
        m == Mag(a)[1] * Mag(b)[1]
        e == Mag(a)[2] + Mag(b)[2]
    IN  IF Exact(a) /\ Exact(b)
        THEN IF m = 0 THEN Zero(s)
             ELSE IF Representable(m, e) THEN Encode(s, m, e)
             ELSE <<"mul", a, b>>
        ELSE <<"mul", a, b>>

FDiv(a, b) ==
    LET s == (SignBit(a) + SignBit(b)) % 2
    IN  IF Exact(a) /\ Exact(b) /\ Class(b) # "zero"
        THEN IF Class(a) = "zero" THEN Zero(s)
             ELSE IF Mag(a)[1] % Mag(b)[1] = 0
                     /\ Representable(Mag(a)[1] \div Mag(b)[1], Mag(a)[2] - Mag(b)[2])
                  THEN Encode(s, Mag(a)[1] \div Mag(b)[1], Mag(a)[2] - Mag(b)[2])
             ELSE <<"div", a, b>>
        ELSE <<"div", a, b>>

\* an unevaluated result that cannot be zero: its operands are exact, so the
\* exact result is a nonzero number far from the underflow threshold
RECURSIVE NonZeroExpr(_)
NonZeroExpr(v) ==
    IF v[1] = "neg" THEN (~IsBits(v[2]) /\ NonZeroExpr(v[2]))
    ELSE Exact(v[2]) /\ Exact(v[3]) /\ (v[1] = "div" => Class(v[3]) # "zero")

LogicalNotNever(b) == {FALSE}

\* the values `!b' can have: TRUE exactly for +0.0 and -0.0 (never for a
\* NaN); both when b is a result the model does not evaluate
LogicalNot(b) ==
    IF IsBits(b) THEN {Class(b) = "zero"}
    ELSE IF NonZeroExpr(b) THEN {FALSE}
    ELSE BOOLEAN

(***************************************************************************)
(* Standard output.  printf("%lf\n", a) writes a with six decimals,        *)
(* rounded to nearest, ties to even; the line is modelled as               *)
(* <<"num", sign, integer part, six-digit fraction>>.                      *)
(***************************************************************************)
\* <<the first k decimals of r / d as a number, the remainder>>, for 0 <= r < d
RECURSIVE Decimals(_, _, _)
Decimals(r, d, k) ==
    IF k = 0 THEN <<0, r>>
    ELSE LET rest == Decimals((r * 10) % d, d, k - 1)
         IN  <<((r * 10) \div d) * (10 ^ (k - 1)) + rest[1], rest[2]>>

SignText(v) == IF SignBit(v) = 1 THEN "-" ELSE ""

FormatLf(v) ==
    LET m  == Mag(v)[1]
        e  == Mag(v)[2]
        d  == Pow2(0 - e)
        ds == Decimals(m % d, d, 6)
        up == \/ 2 * ds[2] > d
              \/ 2 * ds[2] = d /\ ds[1] % 2 = 1
        f  == IF up THEN ds[1] + 1 ELSE ds[1]
    IN  IF Class(v) = "expr" THEN <<"%lf", v, "\n">>
        ELSE IF Class(v) = "nan" THEN <<SignText(v), "nan">>
        ELSE IF Class(v) = "inf" THEN <<SignText(v), "inf">>
        ELSE IF Class(v) = "zero" \/ ExpField(v) < 1023 - 21
             THEN <<"num", SignText(v), 0, 0>>
        ELSE IF Class(v) = "small"
             THEN IF e >= 0 THEN <<"num", SignText(v), m * Pow2(e), 0>>
                  ELSE IF f = 1000000 THEN <<"num", SignText(v), (m \div d) + 1, 0>>
                  ELSE <<"num", SignText(v), m \div d, f>>
        ELSE <<"%lf", v, "\n">>

HexDigit(n) ==
    <<"0", "1", "2", "3", "4", "5", "6", "7", "8", "9",
      "a", "b", "c", "d", "e", "f">>[n + 1]

\* printf's %x of an int: no leading zeros; a negative int prints as the
\* eight digits of its two's complement
RECURSIVE HexNat(_)
HexNat(n) == IF n < 16 THEN <<HexDigit(n)>> ELSE Append(HexNat(n \div 16), HexDigit(n % 16))

FormatX(n) ==
    IF n >= 0 THEN HexNat(n)
    ELSE [i \in 1..8 |-> HexDigit((n \div (16 ^ (8 - i))) % 16)]

(***************************************************************************)
(* Programs.                                                               *)
(***************************************************************************)
Chars(bs) == [i \in 1..Len(bs) |-> ToChar(bs[i])]

\* the arrays of main
Bytecode  == Chars(<<DCONST_2, DCONST_1, SUB, PRINT, HALT>>)
Bytecode2 == Chars(<<DCONST, 63, 240, 0, 0, 0, 0, 0, 0, PRINT, HALT>>)
Bytecode3 == Chars(<<DCONST, 0, 0, 0, 0, 0, 0, 240, 63, PRINT, HALT>>)
Bytecode4 == Chars(<<DCONST_2, ST1, DCONST_M1, LD1, DIV, PRINT, HALT>>)

\* the bytes programs are made of: every opcode and two undefined bytes
Alphabet == Opcodes \cup {1, 255}

Bodies(n) == UNION {[1..k -> Alphabet] : k \in 0..n}

Prefixes ==
    {<<>>, <<DCONST_2, DCONST_1>>, <<DCONST_1, DCONST_0>>,
     <<DCONST_M1, DCONST_2, DCONST_1>>, <<DCONST_2, ST1, DCONST_M1, LD1>>}

Fill(n) == [i \in 1..n |-> DCONST_1]

DOperands ==
    {<<63, 240, 0, 0, 0, 0, 0, 0>>, <<0, 0, 0, 0, 0, 0, 240, 63>>,
     <<0, 0, 0, 0, 0, 0, 0, 128>>, <<1, 2, 3, 4, 5, 6, 7, 200>>}

Programs ==
    {Bytecode, Bytecode2, Bytecode3, Bytecode4}
    \cup {Chars(p \o b) : p \in Prefixes, b \in Bodies(MaxLen)}
    \cup {Chars(Fill(n) \o b) : n \in {STACK_SIZE - 1, STACK_SIZE}, b \in Bodies(MaxFillTail)}
    \cup {Chars(p \o <<DCONST>> \o SubSeq(o, 1, k) \o b) :
            p \in {<<>>, <<DCONST_1>>}, o \in DOperands, k \in 0..8, b \in Bodies(MaxDTail)}

(***************************************************************************)
(* Memory that a run reads without having written it: bytes past the end   *)
(* of code, and doubles outside stack[0..STACK_SIZE-1] or in a slot that   *)
(* malloc left uninitialised.  The C standard leaves the value open.       *)
(***************************************************************************)
GarbageBytes == {HALT, NOP, DCONST_1}

GarbageDoubles == {Zero(0), One}

(***************************************************************************)
(* The machine.                                                            *)
(***************************************************************************)
VARIABLES
    code,      \* vm->code: the program, a sequence of char
    pc,        \* vm->pc
    sp,        \* vm->sp
    stack,     \* vm->stack: the doubles written so far, by index
    r1,        \* vm->r1
    r2,        \* vm->r2
    out,       \* the lines written to standard output
    result,    \* "running", or how run ended
    opcode,    \* the local `opcode' of run: the byte decoded last, -1 before
    steps,     \* the number of opcodes decoded
    first      \* <<output, result>> of an earlier run of the same code, or <<>>

vars == <<code, pc, sp, stack, r1, r2, out, result, opcode, steps, first>>

\* newVM(code), at the entry of run
Init ==
    /\ code \in Programs
    /\ pc = 0
    /\ sp = -1
    /\ r1 = Zero(0)
    /\ r2 = Zero(0)
    /\ stack = [i \in {} |-> Zero(0)]
    /\ out = <<>>
    /\ result = "running"
    /\ opcode = -1
    /\ steps = 0
    /\ first = <<>>

InStack(i) == i >= 0 /\ i <= STACK_SIZE - 1

\* POP with the decrement before the read: vm->stack[--vm->sp]
LoadBelow(i) == IF i - 1 \in DOMAIN stack THEN {stack[i - 1]} ELSE GarbageDoubles

\* the values a read of vm->stack[i] can give
Load(i) == IF i \in DOMAIN stack THEN {stack[i]} ELSE GarbageDoubles

\* vm->stack after vm->stack[i] = v
Store(st, i, v) == [j \in DOMAIN st \cup {i} |-> IF j = i THEN v ELSE st[j]]

RunningAfterReturn == pc < Len(code) + MaxOverrun

\* the loop of run goes on: no case has returned
Running == result = "running" /\ pc < Len(code) + MaxOverrun

\* the values NCODE(vm) can give
NCODE ==
    IF pc < Len(code) THEN {ToUChar(code[pc + 1])} ELSE GarbageBytes

\* the for loop fetches op: opcode = NCODE(vm)
Fetch(op) ==
    /\ Running
    /\ op \in NCODE
    /\ opcode' = op
    /\ steps' = steps + 1
    /\ UNCHANGED first

\* PUSH(vm, v), from stack pointer s
\* PUSH with the increment after the write: vm->stack[vm->sp++] = v
PUSHPostIncrement(s, v) ==
    /\ sp' = s + 1
    /\ stack' = Store(stack, s, v)

PUSH(s, v) ==
    /\ sp' = s + 1
    /\ stack' = Store(stack, s + 1, v)

CaseHALT ==
    /\ Fetch(HALT)
    /\ pc' = pc + 1
    /\ result' = "EXIT_SUCCESS"
    /\ UNCHANGED <<code, sp, stack, r1, r2, out>>

CaseNOP ==
    /\ Fetch(NOP)
    /\ pc' = pc + 1
    /\ UNCHANGED <<code, sp, stack, r1, r2, out, result>>

CaseDCONST_M1 ==
    /\ Fetch(DCONST_M1)
    /\ pc' = pc + 1
    /\ PUSH(sp, MinusOne)
    /\ UNCHANGED <<code, r1, r2, out, result>>

CaseDCONST_0 ==
    /\ Fetch(DCONST_0)
    /\ pc' = pc + 1
    /\ PUSH(sp, Zero(0))
    /\ UNCHANGED <<code, r1, r2, out, result>>

CaseDCONST_1 ==
    /\ Fetch(DCONST_1)
    /\ pc' = pc + 1
    /\ PUSH(sp, One)
    /\ UNCHANGED <<code, r1, r2, out, result>>

CaseDCONST_2 ==
    /\ Fetch(DCONST_2)
    /\ pc' = pc + 1
    /\ PUSH(sp, Two)
    /\ UNCHANGED <<code, r1, r2, out, result>>

\* the 8 bytes memcpy copies from &vm->code[p]; g is what lies past the end
\* the operand read from the highest address down
OperandBigEndian(p, g) ==
    [i \in 1..8 |-> IF p + 9 - i <= Len(code) THEN ToUChar(code[p + 9 - i]) ELSE g]

Operand(p, g) ==
    [i \in 1..8 |-> IF p + i <= Len(code) THEN ToUChar(code[p + i]) ELSE g]

\* DCONST counting the operand bytes only
CaseDCONSTOperandOnly ==
    /\ Fetch(DCONST)
    /\ \E g \in GarbageBytes : PUSH(sp, MkDouble(Operand(pc + 1, g)))
    /\ pc' = pc + 8
    /\ UNCHANGED <<code, r1, r2, out, result>>

\* DCONST without vm->pc += sizeof(double)
CaseDCONSTNoSkip ==
    /\ Fetch(DCONST)
    /\ \E g \in GarbageBytes : PUSH(sp, MkDouble(Operand(pc + 1, g)))
    /\ pc' = pc + 1
    /\ UNCHANGED <<code, r1, r2, out, result>>

CaseDCONST ==
    /\ Fetch(DCONST)
    /\ \E g \in GarbageBytes : PUSH(sp, MkDouble(Operand(pc + 1, g)))
    /\ pc' = pc + 1 + 8
    /\ UNCHANGED <<code, r1, r2, out, result>>

BinOpSwapped(op, a, b) ==
    CASE op = ADD -> FAdd(b, a)
      [] op = MUL -> FMul(b, a)
      [] op = SUB -> FSub(b, a)
      [] op = DIV -> FDiv(b, a)

\* a + b, a * b, a - b, a / b
BinOp(op, a, b) ==
    CASE op = ADD -> FAdd(a, b)
      [] op = MUL -> FMul(a, b)
      [] op = SUB -> FSub(a, b)
      [] op = DIV -> FDiv(a, b)

CaseADD ==
    /\ Fetch(ADD)
    /\ pc' = pc + 1
    /\ \E b \in Load(sp), a \in Load(sp - 1) : PUSH(sp - 2, BinOp(ADD, a, b))
    /\ UNCHANGED <<code, r1, r2, out, result>>

CaseMUL ==
    /\ Fetch(MUL)
    /\ pc' = pc + 1
    /\ \E b \in Load(sp), a \in Load(sp - 1) : PUSH(sp - 2, BinOp(MUL, a, b))
    /\ UNCHANGED <<code, r1, r2, out, result>>

CaseSUB ==
    /\ Fetch(SUB)
    /\ pc' = pc + 1
    /\ \E b \in Load(sp), a \in Load(sp - 1) : PUSH(sp - 2, BinOp(SUB, a, b))
    /\ UNCHANGED <<code, r1, r2, out, result>>

CaseDIV ==
    /\ Fetch(DIV)
    /\ pc' = pc + 1
    /\ \E b \in Load(sp), a \in Load(sp - 1) : \E isZero \in LogicalNot(b) :
          IF isZero
          THEN /\ out' = Append(out, <<"DividingByZeroError ", FormatX(DIV), "\n">>)
               /\ result' = "EXIT_FAILURE"
               /\ sp' = sp - 2
               /\ UNCHANGED stack
          ELSE /\ PUSH(sp - 2, BinOp(DIV, a, b))
               /\ UNCHANGED <<out, result>>
    /\ UNCHANGED <<code, r1, r2>>

CaseNEG ==
    /\ Fetch(NEG)
    /\ pc' = pc + 1
    /\ \E b \in Load(sp) : PUSH(sp - 1, FNeg(b))
    /\ UNCHANGED <<code, r1, r2, out, result>>

\* LD1 pushing the other register
CaseLD1FromR2 ==
    /\ Fetch(LD1)
    /\ pc' = pc + 1
    /\ PUSH(sp, r2)
    /\ UNCHANGED <<code, r1, r2, out, result>>

CaseLD1 ==
    /\ Fetch(LD1)
    /\ pc' = pc + 1
    /\ PUSH(sp, r1)
    /\ UNCHANGED <<code, r1, r2, out, result>>

CaseST1 ==
    /\ Fetch(ST1)
    /\ pc' = pc + 1
    /\ \E b \in Load(sp) : r1' = b
    /\ sp' = sp - 1
    /\ UNCHANGED <<code, stack, r2, out, result>>

CaseLD2 ==
    /\ Fetch(LD2)
    /\ pc' = pc + 1
    /\ PUSH(sp, r2)
    /\ UNCHANGED <<code, r1, r2, out, result>>

\* ST2 storing into the other register
CaseST2IntoR1 ==
    /\ Fetch(ST2)
    /\ pc' = pc + 1
    /\ \E b \in Load(sp) : r1' = b
    /\ sp' = sp - 1
    /\ UNCHANGED <<code, stack, r2, out, result>>

CaseST2 ==
    /\ Fetch(ST2)
    /\ pc' = pc + 1
    /\ \E b \in Load(sp) : r2' = b
    /\ sp' = sp - 1
    /\ UNCHANGED <<code, stack, r1, out, result>>

CasePRINT ==
    /\ Fetch(PRINT)
    /\ pc' = pc + 1
    /\ \E a \in Load(sp) : out' = Append(out, FormatLf(a))
    /\ sp' = sp - 1
    /\ UNCHANGED <<code, stack, r1, r2, result>>

CaseDefault ==
    /\ \E op \in NCODE \ Opcodes :
          /\ Fetch(op)
          /\ out' = Append(out, <<"InvalidOpcodeError: ", FormatX(op), "\n">>)
    /\ pc' = pc + 1
    /\ result' = "EXIT_FAILURE"
    /\ UNCHANGED <<code, sp, stack, r1, r2>>

\* how many values the case of op pops, and whether it pushes
Pops(op) ==
    IF op \in {ADD, SUB, MUL, DIV} THEN 2
    ELSE IF op \in {NEG, ST1, ST2, PRINT} THEN 1
    ELSE 0

Pushes(op) ==
    op \in {DCONST_M1, DCONST_0, DCONST_1, DCONST_2, DCONST, LD1, LD2,
            ADD, SUB, MUL, DIV, NEG}

\* the case of op reads or writes outside code or outside the stack
OutOfBounds(op) ==
    \/ pc >= Len(code)
    \/ op = DCONST /\ pc + 1 + 8 > Len(code)
    \/ Pops(op) >= 1 /\ ~InStack(sp)
    \/ Pops(op) = 2 /\ ~InStack(sp - 1)
    \/ Pushes(op) /\ ~InStack(sp - Pops(op) + 1)

\* an access outside an object may also end the process
Segfault ==
    /\ Running
    /\ \E op \in NCODE : OutOfBounds(op)
    /\ result' = "SIGSEGV"
    /\ UNCHANGED <<code, pc, sp, stack, r1, r2, out, opcode, steps, first>>

Next ==
    \/ CaseHALT
    \/ CaseNOP
    \/ CaseDCONST_M1
    \/ CaseDCONST_0
    \/ CaseDCONST_1
    \/ CaseDCONST_2
    \/ CaseDCONST
    \/ CaseADD
    \/ CaseMUL
    \/ CaseSUB
    \/ CaseDIV
    \/ CaseNEG
    \/ CaseLD1
    \/ CaseST1
    \/ CaseLD2
    \/ CaseST2
    \/ CasePRINT
    \/ CaseDefault
    \/ Segfault

Spec == Init /\ [][Next]_vars

\* main, once a run is over: delVM, then newVM and run again, here on the
\* same code.  The new stack is a fresh malloc: nothing in it is written.
Rerun ==
    /\ result # "running"
    /\ first = <<>>
    /\ first' = <<out, result>>
    /\ pc' = 0
    /\ sp' = -1
    /\ r1' = Zero(0)
    /\ r2' = Zero(0)
    /\ stack' = [i \in {} |-> Zero(0)]
    /\ out' = <<>>
    /\ result' = "running"
    /\ opcode' = -1
    /\ steps' = 0
    /\ UNCHANGED code

RunTwice ==
    \/ Next
    \/ Rerun

SpecRerun == Init /\ [][RunTwice]_vars

(***************************************************************************)
(* Vocabulary of the properties.                                           *)
(***************************************************************************)
\* the failure a finished run reports: run returns EXIT_FAILURE after
\* printing one of its two error messages
Reported ==
    IF result # "EXIT_FAILURE" THEN "none"
    ELSE IF out[Len(out)][1] = "DividingByZeroError " THEN "DivisionByZero"
    ELSE IF out[Len(out)][1] = "InvalidOpcodeError: " THEN "InvalidOpcode"
    ELSE "other"

\* the next step decodes the byte of code at pc, and it is one of ops
Decoding(ops) == Running /\ pc < Len(code) /\ (code[pc + 1] % 256) \in ops

\* the step decodes an opcode (it is not the end of the process)
Decoded == steps' = steps + 1

PopOps == {ADD, SUB, MUL, DIV, NEG, ST1, ST2, PRINT}

BinOps == {ADD, SUB, MUL, DIV}

PushOps == {DCONST_M1, DCONST_0, DCONST_1, DCONST_2, DCONST, LD1, LD2}

(***************************************************************************)
(* Stack bounds (claims C1, C2, C3).                                       *)
(***************************************************************************)
\* C1: an opcode that pops, executed with the operand stack empty, ends the
\* run with the failure StackUnderflow; so does a binary opcode executed
\* with exactly one value on the stack.
C1_PopOnEmptyFails ==
    [][(\/ Decoding(PopOps) /\ sp = -1
        \/ Decoding(BinOps) /\ sp = 0)
       => Reported' = "StackUnderflow"]_vars

\* C2: an opcode that pushes, executed with STACK_SIZE values on the stack,
\* ends the run with the failure StackOverflow and writes no slot outside
\* stack[0..STACK_SIZE-1].
C2_PushOnFullFails ==
    [][(Decoding(PushOps) /\ sp = STACK_SIZE - 1)
       => /\ Reported' = "StackOverflow"
          /\ \A i \in DOMAIN stack' : InStack(i)
          /\ sp' = sp]_vars

\* C3: in every reachable state 0 <= sp + 1 <= STACK_SIZE.
C3_StackPointerInBounds == 0 <= sp + 1 /\ sp + 1 <= STACK_SIZE

(***************************************************************************)
(* Bounds of code (claims C4, C5).                                         *)
(***************************************************************************)
\* C4: before each opcode fetch 0 <= pc <= Len(code), and a fetch with pc at
\* or past Len(code) ends the run with UnexpectedEndOfCode.
C4_FetchInBounds ==
    [][Running
       => /\ 0 <= pc /\ pc <= Len(code)
          /\ pc >= Len(code) => Reported' = "UnexpectedEndOfCode"]_vars

\* C5: DCONST decoded with fewer than 8 bytes left after the opcode byte ends
\* the run with UnexpectedEndOfCode and pushes nothing.
C5_TruncatedOperandFails ==
    [][(Decoding({DCONST}) /\ Len(code) - (pc + 1) < 8)
       => /\ Reported' = "UnexpectedEndOfCode"
          /\ sp' = sp
          /\ stack' = stack]_vars

(***************************************************************************)
(* Division by zero (claim C6).                                            *)
(***************************************************************************)
\* the step executes DIV with at least two values on the stack, the top one
\* (the right operand b) being +0.0 or -0.0
DivByZeroStep ==
    /\ Decoded /\ opcode' = DIV
    /\ sp >= 1 /\ InStack(sp)
    /\ sp \in DOMAIN stack /\ IsBits(stack[sp]) /\ Class(stack[sp]) = "zero"

\* C6: DIV executed with at least two values on the stack and a right operand
\* b equal to 0.0 ends the run with the failure DivisionByZero; no result is
\* pushed, and no step (no later opcode, no later PRINT) follows the failure.
C6_DivisionByZero ==
    [][/\ DivByZeroStep
          => /\ Reported' = "DivisionByZero"
             /\ sp' = sp - 2
             /\ stack' = stack
             /\ out' = Append(out, <<"DividingByZeroError ", <<"6", "4">>, "\n">>)
       /\ Reported # "DivisionByZero"]_vars

\* DCONST_1, DCONST_0, DIV, PRINT has failed at its DIV, the PRINT not run
C6_Witness ==
    /\ Reported = "DivisionByZero"
    /\ opcode = DIV
    /\ sp = -1
    /\ stack[1] = Zero(0)
    /\ pc < Len(code) /\ code[pc + 1] % 256 = PRINT
    /\ Len(out) = 1

(***************************************************************************)
(* Undefined opcodes (claim C7).                                           *)
(***************************************************************************)
\* C7: a byte fetched at an opcode position that is not one of the 17
\* opcodes ends the run with the failure InvalidOpcode carrying the byte's
\* value as an unsigned value 0..255; stack and registers are left as they
\* were and no later byte is decoded.
C7_InvalidOpcode ==
    [][/\ (Decoded /\ opcode' \notin Opcodes)
          => /\ Reported' = "InvalidOpcode"
             /\ opcode' \in 0..255
             /\ pc < Len(code) => opcode' = code[pc + 1] % 256
             /\ out' = Append(out, <<"InvalidOpcodeError: ", FormatX(opcode'), "\n">>)
             /\ opcode' = 255 => out'[Len(out')][2] = <<"f", "f">>
             /\ UNCHANGED <<sp, stack, r1, r2>>
             /\ pc' = pc + 1
       /\ Reported # "InvalidOpcode"]_vars

\* the byte 0xFF, stored as the char -1, was rejected with values on the stack
C7_Witness ==
    /\ Reported = "InvalidOpcode"
    /\ opcode = 255
    /\ code[pc] = -1
    /\ sp >= 1
    /\ pc < Len(code)

(***************************************************************************)
(* Termination (claim C8).                                                 *)
(***************************************************************************)
\* C8: run reaches Halted or an error after at most Len(code) decode steps.
C8_AtMostLenSteps == steps <= Len(code)

(***************************************************************************)
(* Operand order (claim C9).                                               *)
(***************************************************************************)
\* C9: ADD, SUB, MUL and DIV executed with at least two values on the stack,
\* a pushed before b and b on top, leave a <op> b on top, never b <op> a; so
\* DCONST_2, DCONST_1, SUB, PRINT, HALT prints 1.0 and succeeds.
C9_OperandOrder ==
    [][/\ (Decoded /\ opcode' \in BinOps /\ result' = "running"
           /\ sp >= 1 /\ InStack(sp) /\ {sp - 1, sp} \subseteq DOMAIN stack)
          => /\ sp' = sp - 1
             /\ opcode' = ADD => stack'[sp'] = FAdd(stack[sp - 1], stack[sp])
             /\ opcode' = SUB => stack'[sp'] = FSub(stack[sp - 1], stack[sp])
             /\ opcode' = MUL => stack'[sp'] = FMul(stack[sp - 1], stack[sp])
             /\ opcode' = DIV => stack'[sp'] = FDiv(stack[sp - 1], stack[sp])
             /\ (opcode' = SUB /\ stack[sp - 1] = Two /\ stack[sp] = One)
                   => stack'[sp'] = One
             /\ (opcode' = DIV /\ stack[sp - 1] = One /\ stack[sp] = Two)
                   => stack'[sp'] = <<"b", 0, 0, 0, 0, 0, 0, 224, 63>>
       /\ (code = Bytecode /\ result' # "running")
          => /\ result' = "EXIT_SUCCESS"
             /\ out' = << <<"num", "", 1, 0>> >>]_vars

\* the first program of main has printed 2 - 1 and halted
C9_Witness ==
    /\ code = Bytecode
    /\ result = "EXIT_SUCCESS"
    /\ out = << <<"num", "", 1, 0>> >>
    /\ stack[0] = One
    /\ stack[1] = One

(***************************************************************************)
(* Return (claim C10).                                                     *)
(***************************************************************************)
\* C10: the run reports success if and only if HALT was decoded; once HALT
\* is decoded or a failure is raised run has returned, and pc, sp, the
\* stack, the registers and the output never change afterwards.
C10_ReturnIsFinal ==
    [][/\ result = "running"
       /\ result' = "EXIT_SUCCESS" <=> (Decoded /\ opcode' = HALT)
       /\ result' = "EXIT_FAILURE" =>
             (Decoded /\ (opcode' = DIV \/ opcode' \notin Opcodes)
              /\ Len(out') = Len(out) + 1)]_vars

\* a HALT was decoded with bytes of the program left after it
C10_Witness ==
    /\ result = "EXIT_SUCCESS"
    /\ opcode = HALT
    /\ pc < Len(code)
    /\ sp >= 0

(***************************************************************************)
(* Output (claim C11).                                                     *)
(***************************************************************************)
\* the step executes PRINT
PrintStep == Decoded /\ opcode' = PRINT

\* C11: the output receives exactly one value per executed PRINT, the value
\* that was on top of the stack, appended in execution order; a run that
\* ends in an error keeps every value earlier PRINTs emitted.
C11_OnePrintOneValue ==
    [][/\ (PrintStep /\ sp \in DOMAIN stack)
          => /\ out' = Append(out, FormatLf(stack[sp]))
             /\ stack[sp] = One => out'[Len(out')] = <<"num", "", 1, 0>>
             /\ stack[sp] = MinusOne => out'[Len(out')] = <<"num", "-", 1, 0>>
       /\ PrintStep => (Len(out') = Len(out) + 1 /\ SubSeq(out', 1, Len(out)) = out)
       /\ ~PrintStep
          => \/ out' = out
             \/ /\ result' = "EXIT_FAILURE"
                /\ Len(out') = Len(out) + 1
                /\ SubSeq(out', 1, Len(out)) = out
                /\ out'[Len(out')][1] \in {"DividingByZeroError ", "InvalidOpcodeError: "}]_vars

\* a run that printed 1.0 and then failed on an undefined byte
C11_Witness ==
    /\ Reported = "InvalidOpcode"
    /\ Len(out) = 2
    /\ out[1] = <<"num", "", 1, 0>>

(***************************************************************************)
(* Idempotence (claim C12).                                                *)
(***************************************************************************)
\* C12: running the same byte sequence twice, each time on a fresh machine,
\* yields the same output and the same result, for every program.
C12_SameOutcomeTwice ==
    (first # <<>> /\ result # "running") => <<out, result>> = first

(***************************************************************************)
(* The DCONST operand (claims C13, C14, C15).                              *)
(***************************************************************************)
\* the step executes DCONST and its 8 operand bytes all lie in code
DConstStep == Decoded /\ opcode' = DCONST /\ pc + 9 <= Len(code)

\* the operand bytes of the DCONST at pc are the chars of bs
OperandIs(bs) == SubSeq(code, pc + 2, pc + 9) = Chars(bs)

\* C13: the operand byte at the lowest offset is the least significant one:
\* the bytes 00 00 00 00 00 00 F0 3F push 1.0 (sign 0, exponent field 0x3FF,
\* mantissa 0), and DCONST, those bytes, PRINT, HALT prints 1.0.
C13_LittleEndianOperand ==
    /\ [][(DConstStep /\ OperandIs(<<0, 0, 0, 0, 0, 0, 240, 63>>))
          => /\ sp' = sp + 1
             /\ stack'[sp'] = One
             /\ SignBit(stack'[sp']) = 0
             /\ ExpField(stack'[sp']) = 1023
             /\ MantZero(stack'[sp'])
             /\ FormatLf(stack'[sp']) = <<"num", "", 1, 0>>]_vars
    /\ [](code = Bytecode3 /\ result # "running"
          => result = "EXIT_SUCCESS" /\ out = << <<"num", "", 1, 0>> >>)

\* bytecode3 has run and printed 1.000000
C13_Witness ==
    /\ code = Bytecode3
    /\ result = "EXIT_SUCCESS"
    /\ out = << <<"num", "", 1, 0>> >>
    /\ steps = 3

\* C14, as the specification states it: DCONST, 3F F0 00 00 00 00 00 00,
\* PRINT, HALT decodes the operand to 1.0 and prints 1.0.
C14_Bytecode2PrintsOne ==
    /\ [][(DConstStep /\ OperandIs(<<63, 240, 0, 0, 0, 0, 0, 0>>))
          => stack'[sp'] = One]_vars
    /\ [](code = Bytecode2 /\ result # "running"
          => result = "EXIT_SUCCESS" /\ out = << <<"num", "", 1, 0>> >>)

\* C14, amended: the bytes 3F F0 00 00 00 00 00 00 are read lowest byte
\* first like any operand, which gives the pattern 0x000000000000F03F, a
\* positive denormal, not 1.0; DCONST, those bytes, PRINT, HALT prints
\* 0.000000 and succeeds.
C14_Bytecode2PrintsZero ==
    /\ [][(DConstStep /\ OperandIs(<<63, 240, 0, 0, 0, 0, 0, 0>>))
          => /\ sp' = sp + 1
             /\ stack'[sp'] = <<"b", 63, 240, 0, 0, 0, 0, 0, 0>>
             /\ stack'[sp'] # One
             /\ Class(stack'[sp']) = "sub"
             /\ SignBit(stack'[sp']) = 0
             /\ FormatLf(stack'[sp']) = <<"num", "", 0, 0>>]_vars
    /\ [](code = Bytecode2 /\ result # "running"
          => result = "EXIT_SUCCESS" /\ out = << <<"num", "", 0, 0>> >>)

\* bytecode2 has run and printed 0.000000
C14_Witness ==
    /\ code = Bytecode2
    /\ result = "EXIT_SUCCESS"
    /\ out = << <<"num", "", 0, 0>> >>
    /\ steps = 3

\* C15: a 64-bit pattern split into its 8 bytes, least significant first,
\* stored as the chars after a DCONST opcode, is pushed by DCONST as the
\* value with that same pattern: byte i of the value is byte i of the pattern.
C15_OperandRoundTrip ==
    [][\A o \in DOperands :
          (DConstStep /\ OperandIs(o))
          => /\ sp' = sp + 1
             /\ stack'[sp'] = <<"b">> \o o
             /\ \A i \in 1..8 : stack'[sp'][i + 1] = o[i]]_vars

\* DCONST has pushed a pattern whose bytes are all different and whose top
\* byte does not fit a signed char
C15_Witness ==
    /\ opcode = DCONST
    /\ pc = 9
    /\ Len(code) >= 9
    /\ sp = 0
    /\ stack[0] = <<"b", 1, 2, 3, 4, 5, 6, 7, 200>>

(***************************************************************************)
(* Registers (claims C16, C17).                                            *)
(***************************************************************************)
\* the step executes the opcode op
Executes(op) == Decoded /\ opcode' = op

\* C16: both registers are 0.0 initially; r1 changes only when ST1 executes
\* and r2 only when ST2 executes, each to the popped value with the other
\* register unchanged; every other opcode, LD1 and LD2 included, leaves both
\* unchanged.
C16_RegistersChangeOnlyAtStore ==
    /\ [](steps = 0 => r1 = Zero(0) /\ r2 = Zero(0))
    /\ [][/\ r1' # r1 => Executes(ST1)
          /\ r2' # r2 => Executes(ST2)
          /\ Executes(ST1) => r2' = r2 /\ sp' = sp - 1
          /\ Executes(ST2) => r1' = r1 /\ sp' = sp - 1
          /\ (Executes(ST1) /\ sp \in DOMAIN stack) => r1' = stack[sp]
          /\ (Executes(ST2) /\ sp \in DOMAIN stack) => r2' = stack[sp]
          /\ (Decoded /\ opcode' \notin {ST1, ST2}) => r1' = r1 /\ r2' = r2]_vars

\* ST2 has stored 1.0 from the stack <<2.0, 1.0>>: r2 holds it, r1 is still 0.0
C16_Witness ==
    /\ opcode = ST2
    /\ r2 = One
    /\ r1 = Zero(0)
    /\ sp = 0
    /\ stack[0] = Two

\* C17: an LD1 pushes the value the latest ST1 stored, whatever happened in
\* between: LD1 pushes r1, and r1 is what the latest ST1 popped since nothing
\* else changes it (likewise ST2, LD2 and r2); DCONST_2, ST1, DCONST_M1, LD1,
\* DIV, PRINT, HALT prints -0.5 and succeeds.
C17_LoadGivesLastStore ==
    /\ [][/\ Executes(LD1) => sp' = sp + 1 /\ stack'[sp'] = r1 /\ r1' = r1
          /\ Executes(LD2) => sp' = sp + 1 /\ stack'[sp'] = r2 /\ r2' = r2
          /\ (Executes(ST1) /\ sp \in DOMAIN stack) => r1' = stack[sp]
          /\ (Executes(ST2) /\ sp \in DOMAIN stack) => r2' = stack[sp]
          /\ ~Executes(ST1) => r1' = r1
          /\ ~Executes(ST2) => r2' = r2]_vars
    /\ [](code = Bytecode4 /\ result # "running"
          => result = "EXIT_SUCCESS" /\ out = << <<"num", "-", 0, 500000>> >>)

\* bytecode4 has run and printed -0.500000
C17_Witness ==
    /\ code = Bytecode4
    /\ result = "EXIT_SUCCESS"
    /\ r1 = Two
    /\ out = << <<"num", "-", 0, 500000>> >>

(***************************************************************************)
(* Program counter and stack effects (claims C18, C19, C20).               *)
(***************************************************************************)
\* C18: pc starts at 0 and strictly increases on every step of run: by 9
\* when the opcode decoded is DCONST and by 1 for every other byte; nothing
\* else moves pc.
C18_PcAdvances ==
    /\ [](steps = 0 => pc = 0)
    /\ [][/\ Decoded => pc' = pc + (IF opcode' = DCONST THEN 9 ELSE 1)
          /\ Decoded => pc' > pc
          /\ pc' # pc => Decoded]_vars

\* DCONST_1 then DCONST have run: pc is 1 + 9
C18_Witness ==
    /\ steps = 2
    /\ opcode = DCONST
    /\ pc = 10
    /\ sp = 1

\* the stack effect of each opcode in the specification's table
TableEffect(op) ==
    CASE op \in {HALT, NOP, NEG} -> 0
      [] op \in {DCONST_M1, DCONST_0, DCONST_1, DCONST_2, DCONST, LD1, LD2} -> 1
      [] op \in {ADD, SUB, MUL, DIV, ST1, ST2, PRINT} -> -1

\* the number of operands each opcode takes from the stack
Consumed(op) ==
    CASE op \in {ADD, SUB, MUL, DIV} -> 2
      [] op \in {NEG, ST1, ST2, PRINT} -> 1
      [] OTHER -> 0

\* the step executes a defined opcode and does not end the run in failure
Succeeds == Decoded /\ opcode' \in Opcodes /\ result' # "EXIT_FAILURE"

\* C19: each successfully executed opcode changes the stack depth by its
\* table effect and leaves every value below the operands it consumes
\* unchanged; NOP changes nothing but pc.
C19_StackEffect ==
    [][/\ Succeeds
          => /\ sp' = sp + TableEffect(opcode')
             /\ \A i \in DOMAIN stack :
                   i <= sp - Consumed(opcode')
                   => i \in DOMAIN stack' /\ stack'[i] = stack[i]
       /\ Executes(NOP)
          => /\ pc' = pc + 1
             /\ UNCHANGED <<code, sp, stack, r1, r2, out, result>>]_vars

\* SUB has run on <<-1.0, 2.0, 1.0>>: the depth went from 3 to 2 and the
\* value below the operands is still -1.0
C19_Witness ==
    /\ opcode = SUB
    /\ result = "running"
    /\ sp = 1
    /\ stack[0] = MinusOne
    /\ stack[1] = One

\* C20: the 8 operand bytes of a DCONST are never decoded as opcodes: the
\* step goes on running, writes nothing, and the next opcode decoded is the
\* byte right after the operand, whatever bytes the operand holds (0x00, an
\* undefined byte); each step decodes the byte at pc.
C20_OperandNotDecoded ==
    /\ [][/\ DConstStep
             => /\ result' = "running"
                /\ out' = out
                /\ pc' = pc + 9
          /\ (Decoded /\ pc < Len(code)) => opcode' = code[pc + 1] % 256]_vars
    /\ [](code \in {Bytecode2, Bytecode3} /\ result # "running"
          => /\ result = "EXIT_SUCCESS"
             /\ steps = 3
             /\ Len(out) = 1
             /\ out[1][1] = "num")

\* the DCONST of bytecode3, whose operand starts with 0x00, has run: the
\* machine is still running, with pc on the PRINT after the operand
C20_Witness ==
    /\ code = Bytecode3
    /\ steps = 1
    /\ opcode = DCONST
    /\ result = "running"
    /\ pc = 9
    /\ code[pc + 1] % 256 = PRINT

====
